---- MODULE Spec2Model ----
(***************************************************************************)
(* Model of HOCRPdfExporter (qt/src/hocr/HOCRPdfExporter.cc): the export   *)
(* driver HOCRPdfExporter::run and the layout walk                         *)
(* HOCRPdfExporter::printChildren, observed at the PDFPainter interface.   *)
(*                                                                         *)
(* Numbers.  The C++ code mixes int and double.  Every double of the model *)
(* is an exact rational kept as an integer numerator over a denominator    *)
(* that is stated next to it:                                              *)
(*   - font sizes are in hundredths of a point (size * scaling percent);   *)
(*   - text widths and average character widths are numerators over WDen;  *)
(*   - the y of a uniformly spaced paragraph is a numerator over the       *)
(*     paragraph's child count (yDen), the y of a plain line is over 1.    *)
(* A double assigned to an int is truncated, as the C++ conversion does.   *)
(* Binary rounding of the doubles themselves is not modelled.              *)
(***************************************************************************)
EXTENDS Integers, Sequences, FiniteSets, TLC

VARIABLES
    doc,          \* m_hocrdocument: the sequence of hOCR pages (read only)
    pc,           \* position of run()
    ui,           \* the dialog's widget values, as left by the last exec()
    combos,       \* comboBoxImageFormat and comboBoxImageCompression
    accepted,     \* local `accepted` of run()
    outname,      \* local `outname` of run(): "" or a path
    document,     \* local `document`: "null", "open", "closed", "deleted"
    font,         \* local `font`: "null" or "font"
    pdfSettings,  \* local `pdfSettings`; "unset" until lines 354-363 ran
    i,            \* page loop index (1-based; the code's i + 1)
    pdfPages,     \* pages created in the streamed document, with their calls
    failed,       \* local `failed`: titles of the pages without a source
    messages,     \* message boxes shown, in order
    closes,       \* Close() calls made on a document, in order
    opened,       \* QDesktopServices::openUrl was called
    result,       \* return value of run(): "none", TRUE or FALSE
    retries       \* number of setup errors so far

vars == <<doc, pc, ui, combos, accepted, outname, document, font, pdfSettings, i,
          pdfPages, failed, messages, closes, opened, result, retries>>

----------------------------------------------------------------------------
(* Bounds of the model *)

\* most words per line in the generated pages
MaxWords == 2
\* most lines per paragraph in the generated pages
MaxLines == 2
\* most pages in the generated multi-page documents
MaxPages == 2
\* most setup errors (document or font) before the dialog must succeed or cancel
MaxRetries == 1

----------------------------------------------------------------------------
(* Geometry: QRect as used by the exporter *)

Rect(x, y, w, h) == [x |-> x, y |-> y, w |-> w, h |-> h]

\* QRect::right(), used for prevWordRight
RectRight(r) == r.x + r.w - 1

\* QRect::bottom(), used for the y of a plain line
RectBottom(r) == r.y + r.h - 1

\* int(a * num / den) for the non-negative values of the model
Trunc(num, den) == num \div den

----------------------------------------------------------------------------
(* Font metrics of the file backend *)

\* points per inch, the 72. of docScale
PointsPerInch == 72
\* advance of a glyph as a fraction of the font size: 1/GlyphDen
GlyphDen == 2
\* denominator of every width: hundredths of a point, GlyphDen, 72/dpi
WDen == 100 * GlyphDen * PointsPerInch

\* PoDoFoPDFPainter::getAverageCharWidth: CharWidth('x') / m_scaleFactor,
\* numerator over WDen (fontSize in hundredths of a point)
AverageCharWidth(p) == p.fontSize * p.sourceDpi

\* PoDoFoPDFPainter::getTextWidth: StringWidth(text) / m_scaleFactor,
\* numerator over WDen
TextWidth(p, text) == Len(text) * p.fontSize * p.sourceDpi

----------------------------------------------------------------------------
(* PoDoFoPDFPainter, observed through the PDFPainter interface.  A painter *)
(* is [calls, fontSize, sourceDpi]: the calls received so far, the font    *)
(* size of the PdfFont (hundredths of a point) and the page's resolution   *)
(* (m_scaleFactor is PointsPerInch / sourceDpi).                           *)

NewPainter(dpi) == [calls |-> <<>>, fontSize |-> 0, sourceDpi |-> dpi]

setFontSize(p, size) ==
    [p EXCEPT !.calls = Append(@, [op |-> "setFontSize", size |-> size]),
              !.fontSize = size]

drawText(p, x, yNum, yDen, text) ==
    [p EXCEPT !.calls = Append(@, [op |-> "drawText", x |-> x, yNum |-> yNum,
                                   yDen |-> yDen, text |-> text])]

drawImage(p, bbox, selection) ==
    [p EXCEPT !.calls = Append(@, [op |-> "drawImage", bbox |-> bbox,
                                   selection |-> selection])]

\* line 169: CCITTFax4Encoder::encode returns the encoded bytes, or no data
\* (a null pointer and a length of 0) when it fails
EncoderOutcomes == {"encoded", "none"}

\* lines 139-172: what PoDoFoPDFPainter::drawImage sets on the PdfImage. The
\* Zip and Jpeg branches always have bytes; the Fax4 branch hands whatever
\* encode returned to SetImageDataRaw, with no test of the pointer.
PdfImageData(settings, outcome) ==
    [colorFormat |-> settings.colorFormat,
     compression |-> settings.compression,
     stream |-> IF settings.compression = "CompressFax4" /\ outcome = "none"
                THEN "empty" ELSE "bytes"]

getAverageCharWidth(p) ==
    [p EXCEPT !.calls = Append(@, [op |-> "getAverageCharWidth"])]

getTextWidth(p, text) ==
    [p EXCEPT !.calls = Append(@, [op |-> "getTextWidth", text |-> text])]

----------------------------------------------------------------------------
(* HOCRPdfExporter::printChildren *)

\* QRect(left * imgScale, top * imgScale, width * imgScale, height * imgScale):
\* imgScale is outputDpi / sourceDpi, each product is truncated to int
ScaledRect(r, imgScale) ==
    Rect(Trunc(r.x * imgScale.num, imgScale.den),
         Trunc(r.y * imgScale.num, imgScale.den),
         Trunc(r.w * imgScale.num, imgScale.den),
         Trunc(r.h * imgScale.num, imgScale.den))

\* line 414: the early return of printChildren
ItemSkipped(item) == ~item.enabled

\* mutant of ParWordSkipped: the test is inverted
ParWordSkippedInverted(wordItem) == wordItem.enabled

\* line 430: the `continue` of the word loop of a uniformly spaced paragraph
ParWordSkipped(wordItem) == ~wordItem.enabled

\* mutant of AfterSkippedWord: the reference follows the skipped word
AfterSkippedWordTracksRight(x, prevWordRight, wordItem) ==
    [x |-> x, prevWordRight |-> RectRight(wordItem.bbox)]

\* lines 430-432: `continue` leaves x and prevWordRight as they are
AfterSkippedWord(x, prevWordRight, wordItem) ==
    [x |-> x, prevWordRight |-> prevWordRight]

\* line 435 / 454: wordItem->fontSize() * pdfSettings.detectedFontScaling
DetectedFontSize(wordItem, s) == wordItem.fontSize * s.detectedFontScaling

\* line 438: wordRect.x() - prevWordRight > preserveSpaceWidth * averageCharWidth
KeepsSpace(wordX, prevWordRight, s, avgNum) ==
    (wordX - prevWordRight) * WDen > s.preserveSpaceWidth * avgNum

\* line 444: x += painter.getTextWidth(text + " "), x being an int
AdvanceX(x, widthNum) == Trunc(x * WDen + widthNum, WDen)

\* line 441: prevWordRight = wordRect.right()
NextPrevWordRight(wordRect) == RectRight(wordRect)

\* mutant of ParFirstY: the first line starts at the paragraph's top
ParFirstYAtTop(itemRect, childCount) == itemRect.y * childCount

\* lines 421-422: y = top + yInc, as a numerator over childCount
ParFirstY(itemRect, childCount) == itemRect.y * childCount + itemRect.h

\* mutant of ParNextY: the increment is applied twice per line
ParNextYTwice(yNum, itemRect) == yNum + itemRect.h + itemRect.h

\* line 424: y += yInc, as a numerator over childCount
ParNextY(yNum, itemRect) == yNum + itemRect.h

\* mutant of ParBaseline: children()[0] is read without the guard; with no
\* child the read is out of range and yields some other value
ParBaselineUnguarded(item) ==
    IF Len(item.children) > 0 THEN item.children[1].baseLine ELSE 1

\* line 423: the baseline of the first child line
ParBaseline(item) ==
    IF Len(item.children) > 0 THEN item.children[1].baseLine ELSE 0

\* mutant of LineY: the line's top edge instead of its bottom edge
LineYFromTop(item) == item.bbox.y + item.baseLine

\* line 449: y = itemRect.bottom() + baseline
LineY(item) == RectBottom(item.bbox) + item.baseLine

\* lines 428-445: the word loop of one line of a uniformly spaced paragraph
RECURSIVE ParWords(_, _, _, _, _, _, _, _, _)
ParWords(p, words, iWord, x, prevWordRight, yNum, yDen, baseline, s) ==
    IF iWord > Len(words) THEN p
    ELSE LET wordItem == words[iWord] IN
      IF ParWordSkipped(wordItem)
      THEN LET k == AfterSkippedWord(x, prevWordRight, wordItem)
           IN ParWords(p, words, iWord + 1, k.x, k.prevWordRight,
                       yNum, yDen, baseline, s)
      ELSE
        LET wordRect == wordItem.bbox
            p1 == IF s.useDetectedFontSizes
                  THEN setFontSize(p, DetectedFontSize(wordItem, s)) ELSE p
            p2 == getAverageCharWidth(p1)
            x1 == IF KeepsSpace(wordRect.x, prevWordRight, s, AverageCharWidth(p1))
                  THEN wordRect.x ELSE x
            text == wordItem.text
            p3 == drawText(p2, x1, yNum + baseline * yDen, yDen, text)
            p4 == getTextWidth(p3, text \o " ")
            x2 == AdvanceX(x1, TextWidth(p3, text \o " "))
        IN ParWords(p4, words, iWord + 1, x2, NextPrevWordRight(wordRect),
                    yNum, yDen, baseline, s)

\* lines 424-446: the line loop of a uniformly spaced paragraph
RECURSIVE ParLines(_, _, _, _, _)
ParLines(p, item, iLine, yNum, s) ==
    IF iLine > Len(item.children) THEN p
    ELSE LET lineItem == item.children[iLine]
             p1 == ParWords(p, lineItem.children, 1, item.bbox.x, item.bbox.x,
                            yNum, Len(item.children), ParBaseline(item), s)
         IN ParLines(p1, item, iLine + 1, ParNextY(yNum, item.bbox), s)

\* lines 450-457: the word loop of a line without uniform spacing
RECURSIVE LineWords(_, _, _, _, _)
LineWords(p, item, iWord, y, s) ==
    IF iWord > Len(item.children) THEN p
    ELSE LET wordItem == item.children[iWord]
             p1 == IF s.useDetectedFontSizes
                   THEN setFontSize(p, DetectedFontSize(wordItem, s)) ELSE p
             p2 == drawText(p1, wordItem.bbox.x, y, 1, wordItem.text)
         IN LineWords(p2, item, iWord + 1, y, s)

\* lines 413-466
RECURSIVE printChildren(_, _, _, _)
RECURSIVE PrintEach(_, _, _, _, _)
printChildren(p, item, s, imgScale) ==
    IF ItemSkipped(item) THEN p
    ELSE IF item.cls = "ocr_par" /\ s.uniformizeLineSpacing
    THEN ParLines(p, item, 1, ParFirstY(item.bbox, Len(item.children)), s)
    ELSE IF item.cls = "ocr_line" /\ ~s.uniformizeLineSpacing
    THEN LineWords(p, item, 1, LineY(item), s)
    ELSE IF item.cls = "ocr_graphic" /\ ~s.overlay
    THEN drawImage(p, item.bbox, ScaledRect(item.bbox, imgScale))
    ELSE PrintEach(p, item.children, 1, s, imgScale)

\* lines 462-464: the recursion into the children, in order
PrintEach(p, kids, n, s, imgScale) ==
    IF n > Len(kids) THEN p
    ELSE PrintEach(printChildren(p, kids[n], s, imgScale), kids, n + 1, s, imgScale)

----------------------------------------------------------------------------
(* The hOCR documents the export is run on.  An item is                    *)
(* [cls, enabled, bbox, children, baseLine, text, fontSize]; a page also   *)
(* has title and resolution.                                               *)

Item(cls, enabled, bbox, children) ==
    [cls |-> cls, enabled |-> enabled, bbox |-> bbox, children |-> children,
     baseLine |-> 0, text |-> "", fontSize |-> 0]

\* texts of the words, by line and position: unique within a page
Texts == << <<"ab", "c", "de", "fgh">>,
            <<"ij", "k", "lm", "nop">>,
            <<"qr", "s", "tu", "vwx">>,
            <<"yz", "A", "BC", "DEF">> >>

\* detected font sizes of the words, by position (points)
WordFontSizes == <<3, 3, 2, 3>>

\* baseline offsets of the lines, by position (pixels)
BaseLines == <<1, 2, 0, 3>>

\* pixel gaps between a word's left edge and the right edge before it
GapSet == {2, 3, 4}

WordW == 4
LineH == 5
ParLeft == 10
ParTop == 20
\* height of the paragraph of the generated pages
ParH == 7
PageW == 60
PageH == 80

\* a word is chosen as <<gap, enabled>>
WordChoices == GapSet \X BOOLEAN
WordSeqs == UNION {[1..n -> WordChoices] : n \in 0..MaxWords}

\* left edge of word n of a line: each word starts `gap` after the right
\* edge of the word before it (the paragraph's left edge for the first)
RECURSIVE WordLeft(_, _)
WordLeft(cs, n) ==
    IF n = 1 THEN ParLeft + cs[1][1]
    ELSE RectRight(Rect(WordLeft(cs, n - 1), 0, WordW, LineH)) + cs[n][1]

MkWord(cs, l, n) ==
    [Item("ocr_word", cs[n][2],
          Rect(WordLeft(cs, n), ParTop + (l - 1) * LineH, WordW, LineH), <<>>)
     EXCEPT !.text = Texts[l][n], !.fontSize = WordFontSizes[n]]

MkLine(cs, l, enabled) ==
    [Item("ocr_line", enabled,
          Rect(ParLeft, ParTop + (l - 1) * LineH, PageW - ParLeft, LineH),
          [n \in 1..Len(cs) |-> MkWord(cs, l, n)])
     EXCEPT !.baseLine = BaseLines[l]]

MkPar(lines, enabled) ==
    Item("ocr_par", enabled, Rect(ParLeft, ParTop, PageW - ParLeft, ParH), lines)

MkPage(kids, enabled, dpi) ==
    [cls |-> "ocr_page", enabled |-> enabled, bbox |-> Rect(0, 0, PageW, PageH),
     children |-> kids, baseLine |-> 0, text |-> "", fontSize |-> 0,
     title |-> "page", resolution |-> dpi]

\* one paragraph of one line: every choice of words
WordPages ==
    {MkPage(<<MkPar(<<MkLine(cs, 1, TRUE)>>, TRUE)>>, TRUE, 72) :
        cs \in WordSeqs}

\* the one word of each line of the multi-line pages
LineWord == << <<3, TRUE>> >>

\* one paragraph of 0..MaxLines lines of one word: every choice of the
\* lines' and the paragraph's enabled flags
LinePages ==
    UNION {{MkPage(<<MkPar([l \in 1..n |-> MkLine(LineWord, l, les[l])], pe)>>,
                   TRUE, 72) :
               les \in [1..n -> BOOLEAN], pe \in BOOLEAN} : n \in 0..MaxLines}

MkGraphic(bbox, enabled) == Item("ocr_graphic", enabled, bbox, <<>>)

\* a column area holding a graphic and a paragraph, then a second graphic
GraphicPages ==
    {MkPage(<<Item("ocr_carea", ae, Rect(2, 2, 50, 40),
                   <<MkGraphic(Rect(5, 7, 9, 11), g1),
                     MkPar(<<MkLine(LineWord, 1, TRUE)>>, TRUE)>>),
              MkGraphic(Rect(3, 45, 13, 15), g2)>>, TRUE, 144) :
        ae \in BOOLEAN, g1 \in BOOLEAN, g2 \in BOOLEAN}

\* the pages of the multi-page documents
PageKinds ==
    {MkPage(<<MkPar(<<MkLine(LineWord, 1, TRUE)>>, TRUE)>>, en, 72) :
        en \in BOOLEAN}

\* page->title(): the pages of a document are titled by their position
Titles == <<"page 1", "page 2", "page 3", "page 4">>
Titled(pages) == [n \in 1..Len(pages) |-> [pages[n] EXCEPT !.title = Titles[n]]]

Docs ==
    {Titled(<<pg>>) : pg \in WordPages \cup LinePages \cup GraphicPages}
    \cup UNION {{Titled(pages) : pages \in [1..n -> PageKinds]} : n \in 0..MaxPages}

----------------------------------------------------------------------------
(* The settings dialog *)

\* m_pdfFontDialog->currentFont().pointSize()
DefaultFontSize == 3

\* the widget values read by run(): checkBoxUniformizeSpacing,
\* comboBoxOutputMode (index 1 is overlay), checkBoxFontSize, spinBoxPreserve,
\* spinFontScaling, spinBoxDpi
UiSet ==
    [uniformizeSpacing : BOOLEAN, outputMode : {0, 1}, fontSize : BOOLEAN,
     preserve : {1, 2}, fontScaling : {100}, dpi : {72, 108}]

UiDefault ==
    [uniformizeSpacing |-> FALSE, outputMode |-> 0, fontSize |-> TRUE,
     preserve |-> 1, fontScaling |-> 100, dpi |-> 72]

\* lines 195-201: the item data of comboBoxImageFormat
FormatItems == <<"Format_RGB888", "Format_Grayscale8", "Format_Mono">>

\* lines 205-207: the item data of comboBoxImageCompression
CompressionItems == <<"CompressZip", "CompressFax4", "CompressJpeg">>

\* the enumerator of PDFSettings::Compression with the value 0
CompressionZero == "CompressZip"

\* QComboBox::itemData(index).toInt() cast to the enum: an index without an
\* item gives an invalid QVariant, whose toInt() is 0
itemData(items, index, zero) ==
    IF index + 1 \in DOMAIN items THEN items[index + 1] ELSE zero

\* QComboBox::findData: the index of the item holding the data
findData(items, data) == (CHOOSE k \in DOMAIN items : items[k] = data) - 1

\* lines 202 and 208: both combos start without a selection; the items of a
\* combo are selectable and enabled when added
CombosInit ==
    [format |-> -1, compression |-> -1, ccittEnabled |-> TRUE, jpegEnabled |-> TRUE]

\* lines 510-535: the slot of comboBoxImageFormat's currentIndexChanged
imageFormatChanged(c) ==
    LET format == itemData(FormatItems, c.format, "Format_Invalid")
        zipIdx == findData(CompressionItems, "CompressZip")
        ccittIdx == findData(CompressionItems, "CompressFax4")
        jpegIdx == findData(CompressionItems, "CompressJpeg")
    IN IF format = "Format_Mono"
       THEN [c EXCEPT !.compression = IF @ = jpegIdx THEN zipIdx ELSE @,
                      !.ccittEnabled = TRUE,
                      !.jpegEnabled = FALSE]
       ELSE [c EXCEPT !.compression = IF @ = ccittIdx THEN zipIdx ELSE @,
                      !.ccittEnabled = FALSE,
                      !.jpegEnabled = TRUE]

\* lines 354-363: PDFSettings from the widgets; detectedFontScaling is kept
\* as the percentage, so a font size times it is in hundredths of a point
ReadSettings(u, c) ==
    [colorFormat |-> itemData(FormatItems, c.format, "Format_Invalid"),
     compression |-> itemData(CompressionItems, c.compression, CompressionZero),
     useDetectedFontSizes |-> u.fontSize,
     uniformizeLineSpacing |-> u.uniformizeSpacing,
     preserveSpaceWidth |-> u.preserve,
     overlay |-> (u.outputMode = 1),
     detectedFontScaling |-> u.fontScaling]

----------------------------------------------------------------------------
(* HOCRPdfExporter::run *)

Init ==
    /\ doc \in Docs
    /\ pc = "exec"
    /\ ui = UiDefault
    /\ combos = CombosInit
    /\ accepted = FALSE
    /\ outname = ""
    /\ document = "null"
    /\ font = "null"
    /\ pdfSettings = ReadSettings(UiDefault, CombosInit)
    /\ i = 0
    /\ pdfPages = <<>>
    /\ failed = <<>>
    /\ messages = <<>>
    /\ closes = <<>>
    /\ opened = FALSE
    /\ result = "none"
    /\ retries = 0

\* line 290: exec() returns Accepted, the widgets holding u
ExecAccepted ==
    /\ pc = "exec"
    /\ \E u \in UiSet : ui' = u
    /\ accepted' = TRUE
    /\ pc' = "saveDialog"
    /\ UNCHANGED <<combos, doc, outname, document, font, pdfSettings, i, pdfPages,
                   failed, messages, closes, opened, result, retries>>

\* lines 290-293: exec() returns Rejected, the loop is left
ExecRejected ==
    /\ pc = "exec"
    /\ accepted' = FALSE
    /\ pc' = "setupDone"
    /\ UNCHANGED <<combos, doc, ui, outname, document, font, pdfSettings, i, pdfPages,
                   failed, messages, closes, opened, result, retries>>

\* lines 214 and 510-535: while the dialog is open the user selects another
\* image format; currentIndexChanged runs imageFormatChanged
SelectFormat ==
    /\ pc = "exec"
    /\ \E k \in 0..(Len(FormatItems) - 1) :
          /\ k # combos.format
          /\ combos' = imageFormatChanged([combos EXCEPT !.format = k])
    /\ UNCHANGED <<doc, pc, ui, accepted, outname, document, font, pdfSettings,
                   i, pdfPages, failed, messages, closes, opened, result,
                   retries>>

\* lines 216 and 537-542: the user selects another compression, which the
\* combo allows for an enabled item; imageCompressionChanged only enables
\* the quality widgets
SelectCompression ==
    /\ pc = "exec"
    /\ \E k \in 0..(Len(CompressionItems) - 1) :
          /\ k # combos.compression
          /\ k = findData(CompressionItems, "CompressFax4") => combos.ccittEnabled
          /\ k = findData(CompressionItems, "CompressJpeg") => combos.jpegEnabled
          /\ combos' = [combos EXCEPT !.compression = k]
    /\ UNCHANGED <<doc, pc, ui, accepted, outname, document, font, pdfSettings,
                   i, pdfPages, failed, messages, closes, opened, result,
                   retries>>

\* lines 301-306: the file chooser returns a name
SaveChosen ==
    /\ pc = "saveDialog"
    /\ outname' = "out.pdf"
    /\ pc' = "newDocument"
    /\ UNCHANGED <<combos, doc, ui, accepted, document, font, pdfSettings, i, pdfPages,
                   failed, messages, closes, opened, result, retries>>

\* lines 301-305: the file chooser is cancelled
SaveCancelled ==
    /\ pc = "saveDialog"
    /\ outname' = ""
    /\ accepted' = FALSE
    /\ pc' = "setupDone"
    /\ UNCHANGED <<combos, doc, ui, document, font, pdfSettings, i, pdfPages,
                   failed, messages, closes, opened, result, retries>>

\* line 321: the streamed document is created
DocumentCreated ==
    /\ pc = "newDocument"
    /\ document' = "open"
    /\ pc' = "createFont"
    /\ UNCHANGED <<combos, doc, ui, accepted, outname, font, pdfSettings, i, pdfPages,
                   failed, messages, closes, opened, result, retries>>

\* lines 322-325: the constructor throws; back to the dialog
DocumentFailed ==
    /\ pc = "newDocument"
    /\ retries < MaxRetries
    /\ messages' = Append(messages, [box |-> "critical",
                                     title |-> "Failed to save output",
                                     pages |-> <<>>])
    /\ retries' = retries + 1
    /\ pc' = "exec"
    /\ UNCHANGED <<combos, doc, ui, accepted, outname, document, font, pdfSettings, i,
                   pdfPages, failed, closes, opened, result>>

\* lines 326-342: the font subset is created, the loop is left
FontCreated ==
    /\ pc = "createFont"
    /\ font' = "font"
    /\ pc' = "setupDone"
    /\ UNCHANGED <<combos, doc, ui, accepted, outname, document, pdfSettings, i,
                   pdfPages, failed, messages, closes, opened, result, retries>>

\* mutant of FontUnsupported: the error leaves the setup loop instead of
\* returning to the dialog
FontUnsupportedBreaks ==
    /\ pc = "createFont"
    /\ retries < MaxRetries
    /\ font' = "null"
    /\ messages' = Append(messages, [box |-> "critical", title |-> "Error",
                                     pages |-> <<>>])
    /\ closes' = Append(closes, [at |-> "fontError", pages |-> Len(pdfPages),
                                 ok |-> TRUE])
    /\ document' = "deleted"
    /\ retries' = retries + 1
    /\ pc' = "setupDone"
    /\ UNCHANGED <<combos, doc, ui, accepted, outname, pdfSettings, i, pdfPages,
                   failed, opened, result>>

\* lines 333-341: no font; the document is closed and deleted, back to the dialog
FontUnsupported ==
    /\ pc = "createFont"
    /\ retries < MaxRetries
    /\ font' = "null"
    /\ messages' = Append(messages, [box |-> "critical", title |-> "Error",
                                     pages |-> <<>>])
    /\ closes' = Append(closes, [at |-> "fontError", pages |-> Len(pdfPages),
                                 ok |-> TRUE])
    /\ document' = "deleted"
    /\ retries' = retries + 1
    /\ pc' = "exec"
    /\ UNCHANGED <<combos, doc, ui, accepted, outname, pdfSettings, i, pdfPages,
                   failed, opened, result>>

\* lines 345-350: the dialog was not accepted
ReturnCancelled ==
    /\ pc = "setupDone"
    /\ ~accepted
    /\ result' = "false"
    /\ pc' = "done"
    /\ UNCHANGED <<combos, doc, ui, accepted, outname, document, font, pdfSettings, i,
                   pdfPages, failed, messages, closes, opened, retries>>

\* lines 352-365: the settings are read, the page loop starts
StartPages ==
    /\ pc = "setupDone"
    /\ accepted
    /\ pdfSettings' = ReadSettings(ui, combos)
    /\ failed' = <<>>
    /\ i' = 1
    /\ pc' = "pages"
    /\ UNCHANGED <<combos, doc, ui, accepted, outname, document, font, pdfPages,
                   messages, closes, opened, result, retries>>

\* lines 366-369: a disabled page is passed over
SkipPage ==
    /\ pc = "pages"
    /\ i <= Len(doc)
    /\ ~doc[i].enabled
    /\ i' = i + 1
    /\ UNCHANGED <<combos, doc, pc, ui, accepted, outname, document, font, pdfSettings,
                   pdfPages, failed, messages, closes, opened, result, retries>>

\* mutant of PageCalls: the page image is drawn before the text
PageCallsImageFirst(page, s, outputDpi) ==
    LET imgScale == [num |-> outputDpi, den |-> page.resolution]
        p0 == setFontSize(NewPainter(page.resolution), DefaultFontSize * 100)
        p1 == IF s.overlay
              THEN drawImage(p0, page.bbox, ScaledRect(page.bbox, imgScale))
              ELSE p0
        p2 == printChildren(p1, page, s, imgScale)
    IN p2.calls

\* lines 381-387: the calls made on the page's painter
PageCalls(page, s, outputDpi) ==
    LET imgScale == [num |-> outputDpi, den |-> page.resolution]
        p0 == setFontSize(NewPainter(page.resolution), DefaultFontSize * 100)
        p1 == printChildren(p0, page, s, imgScale)
        p2 == IF s.overlay
              THEN drawImage(p1, page.bbox, ScaledRect(page.bbox, imgScale))
              ELSE p1
    IN p2.calls

\* lines 127-173: the images that the page's drawImage calls embed, in the
\* order of the calls
PageImages(page, s, outputDpi, outcome) ==
    [k \in 1..Len(SelectSeq(PageCalls(page, s, outputDpi),
                            LAMBDA c : c.op = "drawImage")) |->
        PdfImageData(s, outcome)]

\* lines 370-389: addSource succeeds; the page is created, drawn and finished.
\* The page size is bbox * docScale, numerators over the source resolution.
RenderPage ==
    /\ pc = "pages"
    /\ i <= Len(doc)
    /\ doc[i].enabled
    /\ \E outcome \in EncoderOutcomes :
          pdfPages' = Append(pdfPages,
             [title |-> doc[i].title,
              wNum |-> doc[i].bbox.w * PointsPerInch,
              hNum |-> doc[i].bbox.h * PointsPerInch,
              den |-> doc[i].resolution,
              calls |-> PageCalls(doc[i], pdfSettings, ui.dpi),
              images |-> PageImages(doc[i], pdfSettings, ui.dpi, outcome),
              finished |-> TRUE])
    /\ i' = i + 1
    /\ UNCHANGED <<combos, doc, pc, ui, accepted, outname, document, font, pdfSettings,
                   failed, messages, closes, opened, result, retries>>

\* mutant of SourceFailed: the failure ends the page loop
SourceFailedBreaks ==
    /\ pc = "pages"
    /\ i <= Len(doc)
    /\ doc[i].enabled
    /\ failed' = Append(failed, doc[i].title)
    /\ i' = Len(doc) + 1
    /\ UNCHANGED <<combos, doc, pc, ui, accepted, outname, document, font, pdfSettings,
                   pdfPages, messages, closes, opened, result, retries>>

\* lines 373, 390-392: addSource fails; the title is recorded
SourceFailed ==
    /\ pc = "pages"
    /\ i <= Len(doc)
    /\ doc[i].enabled
    /\ failed' = Append(failed, doc[i].title)
    /\ i' = i + 1
    /\ UNCHANGED <<combos, doc, pc, ui, accepted, outname, document, font, pdfSettings,
                   pdfPages, messages, closes, opened, result, retries>>

\* lines 394-396: after the loop, the failed pages are reported
ReportFailed ==
    /\ pc = "pages"
    /\ i > Len(doc)
    /\ messages' = IF failed # <<>>
                   THEN Append(messages, [box |-> "warning",
                                          title |-> "Errors occurred",
                                          pages |-> failed])
                   ELSE messages
    /\ pc' = "close"
    /\ UNCHANGED <<combos, doc, ui, accepted, outname, document, font, pdfSettings, i,
                   pdfPages, failed, closes, opened, result, retries>>

\* lines 398-410: Close() succeeds; the file is opened if
\* checkBoxOpenOutputPdf is checked
CloseSucceeded ==
    /\ pc = "close"
    /\ closes' = Append(closes, [at |-> "final", pages |-> Len(pdfPages),
                                 ok |-> TRUE])
    /\ \E openOutputPdf \in BOOLEAN : opened' = openOutputPdf
    /\ document' = "deleted"
    /\ result' = "true"
    /\ pc' = "done"
    /\ UNCHANGED <<combos, doc, ui, accepted, outname, font, pdfSettings, i, pdfPages,
                   failed, messages, retries>>

\* mutant of CloseFailed: pdfCanBeOpened is not reset by the handler
CloseFailedIgnored ==
    /\ pc = "close"
    /\ closes' = Append(closes, [at |-> "final", pages |-> Len(pdfPages),
                                 ok |-> FALSE])
    /\ messages' = Append(messages, [box |-> "warning", title |-> "Export failed",
                                     pages |-> <<>>])
    /\ \E openOutputPdf \in BOOLEAN : opened' = openOutputPdf
    /\ document' = "deleted"
    /\ result' = "true"
    /\ pc' = "done"
    /\ UNCHANGED <<combos, doc, ui, accepted, outname, font, pdfSettings, i, pdfPages,
                   failed, retries>>

\* lines 398-410: Close() throws PdfError; nothing is opened, whatever
\* checkBoxOpenOutputPdf holds
CloseFailed ==
    /\ pc = "close"
    /\ closes' = Append(closes, [at |-> "final", pages |-> Len(pdfPages),
                                 ok |-> FALSE])
    /\ messages' = Append(messages, [box |-> "warning", title |-> "Export failed",
                                     pages |-> <<>>])
    /\ opened' = FALSE
    /\ document' = "deleted"
    /\ result' = "false"
    /\ pc' = "done"
    /\ UNCHANGED <<combos, doc, ui, accepted, outname, font, pdfSettings, i, pdfPages,
                   failed, retries>>

Next ==
    \/ ExecAccepted
    \/ ExecRejected
    \/ SaveChosen
    \/ SaveCancelled
    \/ DocumentCreated
    \/ DocumentFailed
    \/ FontCreated
    \/ FontUnsupported
    \/ ReturnCancelled
    \/ StartPages
    \/ SkipPage
    \/ RenderPage
    \/ SourceFailed
    \/ ReportFailed
    \/ CloseSucceeded
    \/ CloseFailed

Spec == Init /\ [][Next]_vars

\* the documents of the runs in which the two combos are used
DialogDocs == {Titled(<<pg>>) : pg \in GraphicPages \cup PageKinds}

InitDialog == Init /\ doc \in DialogDocs

NextDialog ==
    \/ Next
    \/ SelectFormat
    \/ SelectCompression

\* run() with the image format and compression combos in use
SpecDialog == InitDialog /\ [][NextDialog]_vars

----------------------------------------------------------------------------
(* Vocabulary of the properties *)

Range(f) == {f[n] : n \in DOMAIN f}

\* the hOCR page an output page was created for (titles are unique)
SourceOf(pdfPage) == CHOOSE pg \in Range(doc) : pg.title = pdfPage.title

\* the items of a tree that are disabled or lie below a disabled item
RECURSIVE DeadItems(_, _)
DeadItems(item, dead) ==
    LET d == dead \/ ~item.enabled
    IN (IF d THEN {item} ELSE {})
       \cup UNION {DeadItems(item.children[n], d) : n \in DOMAIN item.children}

\* every item of a tree
RECURSIVE AllItems(_)
AllItems(item) ==
    {item} \cup UNION {AllItems(item.children[n]) : n \in DOMAIN item.children}

DrawTexts(calls) == SelectSeq(calls, LAMBDA c : c.op = "drawText")
DrawImages(calls) == SelectSeq(calls, LAMBDA c : c.op = "drawImage")

\* the run is past the setup loop with the dialog accepted
PastSetup == pc \in {"pages", "close"} \/ (pc = "done" /\ accepted)

\* the titles of the enabled pages the loop has passed, in document order
Attempted ==
    LET passed == SubSeq(doc, 1, IF i > Len(doc) THEN Len(doc) ELSE i - 1)
        on == SelectSeq(passed, LAMBDA pg : pg.enabled)
    IN [n \in 1..Len(on) |-> on[n].title]

PageTitles == [n \in 1..Len(pdfPages) |-> pdfPages[n].title]

FailedReports == SelectSeq(messages, LAMBDA m : m.title = "Errors occurred")

FinalCloses == SelectSeq(closes, LAMBDA c : c.at = "final")

----------------------------------------------------------------------------
(* Properties *)

\* C1: no drawText and no drawImage call is issued for an item whose enabled
\* flag is false, nor for a descendant of such an item, whatever the settings
\* (a disabled word in an enabled line, a disabled line in an enabled
\* paragraph included).
C1_DisabledNeverDrawn ==
    \A n \in DOMAIN pdfPages :
        \A it \in DeadItems(SourceOf(pdfPages[n]), FALSE) :
            \A c \in Range(pdfPages[n].calls) :
                /\ ~(c.op = "drawText" /\ it.cls = "ocr_word" /\ c.text = it.text)
                /\ ~(c.op = "drawImage" /\ it.cls = "ocr_graphic" /\ c.bbox = it.bbox)

\* C2: in the page loop every enabled page passed so far has either one
\* created and finished output page or its title in the failed list, never
\* both; disabled pages have neither; both sequences keep document order; the
\* loop stops only after the last page; the failed list is reported once,
\* after the last page and before the final Close, and only if it is not empty.
C2_PageOutcomes ==
    PastSetup =>
        /\ SelectSeq(Attempted, LAMBDA t : t \in Range(failed)) = failed
        /\ SelectSeq(Attempted, LAMBDA t : t \notin Range(failed)) = PageTitles
        /\ \A n \in DOMAIN pdfPages : pdfPages[n].finished
        /\ pc \in {"close", "done"} => i = Len(doc) + 1
        /\ pc = "pages" => FailedReports = <<>>
        /\ pc \in {"close", "done"} =>
              FailedReports = IF failed = <<>> THEN <<>>
                              ELSE <<[box |-> "warning", title |-> "Errors occurred",
                                      pages |-> failed]>>
        /\ pc = "close" => FinalCloses = <<>>

\* C2 witness: page 1 was rendered, page 2 had no source, the export succeeded
C2_Witness ==
    /\ pc = "done"
    /\ PageTitles = <<"page 1">>
    /\ failed = <<"page 2">>
    /\ Len(FailedReports) = 1
    /\ result = "true"

\* C3: once setup succeeded, run returns false exactly when the final Close
\* failed: page failures followed by a successful Close give true with the
\* document closed, a failed Close gives false and the file is never opened.
C3_ResultIsClose ==
    (pc = "done" /\ accepted) =>
        /\ Len(FinalCloses) = 1
        /\ closes[Len(closes)].at = "final"
        /\ (result = "false") <=> ~FinalCloses[1].ok
        /\ (result = "true") <=> FinalCloses[1].ok
        /\ ~FinalCloses[1].ok => ~opened
        /\ FinalCloses[1].pages = Len(pdfPages)

\* C3 witness: a page was rendered, another failed, and Close failed
C3_Witness ==
    /\ pc = "done"
    /\ accepted
    /\ Len(pdfPages) > 0
    /\ failed # <<>>
    /\ result = "false"

\* C3 second case: page failures followed by a successful Close
C3_WitnessPartial ==
    /\ pc = "done"
    /\ failed # <<>>
    /\ result = "true"
    /\ FinalCloses[1].ok

----------------------------------------------------------------------------
(* Vocabulary of the layout properties *)

Pars(page) == {it \in AllItems(page) : it.cls = "ocr_par"}
Lines(page) == {it \in AllItems(page) : it.cls = "ocr_line"}

\* the drawText calls that carry a text (the texts of a page are unique)
DrawsOf(calls, text) ==
    {c \in Range(calls) : c.op = "drawText" /\ c.text = text}

EnabledWords(lineItem) == SelectSeq(lineItem.children, LAMBDA w : w.enabled)

\* the font size in effect when a word is drawn (hundredths of a point)
SizeAt(wordItem, s) ==
    IF s.useDetectedFontSizes THEN wordItem.fontSize * s.detectedFontScaling
    ELSE DefaultFontSize * 100

\* a painter of the page showing that font size
PainterAt(page, wordItem, s) ==
    [NewPainter(page.resolution) EXCEPT !.fontSize = SizeAt(wordItem, s)]

\* the tree without the disabled words of its lines
RECURSIVE StripWords(_)
StripWords(item) ==
    LET kids == IF item.cls = "ocr_line" THEN EnabledWords(item) ELSE item.children
    IN [item EXCEPT !.children = [n \in DOMAIN kids |-> StripWords(kids[n])]]

\* the enabled graphics the walk reaches, in document order: the walk does
\* not descend below a disabled item, a uniformly spaced paragraph or a
\* plain line
RECURSIVE ReachedGraphics(_, _)
RECURSIVE ReachedIn(_, _, _)
ReachedGraphics(item, s) ==
    IF ~item.enabled THEN <<>>
    ELSE IF item.cls = "ocr_par" /\ s.uniformizeLineSpacing THEN <<>>
    ELSE IF item.cls = "ocr_line" /\ ~s.uniformizeLineSpacing THEN <<>>
    ELSE IF item.cls = "ocr_graphic" THEN <<item>>
    ELSE ReachedIn(item.children, 1, s)
ReachedIn(kids, n, s) ==
    IF n > Len(kids) THEN <<>>
    ELSE ReachedGraphics(kids[n], s) \o ReachedIn(kids, n + 1, s)

\* a rectangle in image pixels: each coordinate times outputDpi / resolution
InImagePixels(r, page) ==
    [x |-> (r.x * ui.dpi) \div page.resolution,
     y |-> (r.y * ui.dpi) \div page.resolution,
     w |-> (r.w * ui.dpi) \div page.resolution,
     h |-> (r.h * ui.dpi) \div page.resolution]

----------------------------------------------------------------------------
(* Layout properties *)

\* C5: with uniform line spacing, every word drawn for line k (0 <= k < N) of
\* a paragraph with N >= 1 lines has y = top + (k+1) * (H_total / N) + baseline0,
\* baseline0 being the first line's baseline offset; the other lines'
\* baseline offsets play no part.
C5_UniformLineY ==
    pdfSettings.uniformizeLineSpacing =>
        \A n \in DOMAIN pdfPages : \A par \in Pars(SourceOf(pdfPages[n])) :
            LET N == Len(par.children) IN
            \A k \in 0..(N - 1) : \A w \in Range(par.children[k + 1].children) :
                \A c \in DrawsOf(pdfPages[n].calls, w.text) :
                    c.yNum * N =
                        (par.bbox.y * N + (k + 1) * par.bbox.h
                            + par.children[1].baseLine * N) * c.yDen

\* C5 witness: a paragraph of two lines with different baseline offsets and a
\* height that two does not divide, the word of the second line drawn
C5_Witness ==
    /\ pdfSettings.uniformizeLineSpacing
    /\ \E n \in DOMAIN pdfPages : \E par \in Pars(SourceOf(pdfPages[n])) :
          /\ Len(par.children) = 2
          /\ par.bbox.h % 2 = 1
          /\ par.children[2].baseLine # par.children[1].baseLine
          /\ \E w \in Range(par.children[2].children) :
                DrawsOf(pdfPages[n].calls, w.text) # {}

\* C6 as stated: with uniform line spacing, the baseline of the line with
\* index k is at paragraphTop + k * increment + firstLineBaselineOffset,
\* increment = paragraphHeight / lineCount.
C6_LineAtKIncrements ==
    pdfSettings.uniformizeLineSpacing =>
        \A n \in DOMAIN pdfPages : \A par \in Pars(SourceOf(pdfPages[n])) :
            LET N == Len(par.children)
                incNum == par.bbox.h
            IN \A k \in 0..(N - 1) : \A w \in Range(par.children[k + 1].children) :
                \A c \in DrawsOf(pdfPages[n].calls, w.text) :
                    (c.yNum - (par.bbox.y + par.children[1].baseLine) * c.yDen) * N
                        = k * incNum * c.yDen

\* C6 amended: the baseline of the line with index k is at paragraphTop +
\* (k + 1) * increment + firstLineBaselineOffset, increment = paragraphHeight /
\* lineCount: line index 0 sits one increment below paragraphTop +
\* firstLineBaselineOffset, and consecutive lines are one increment apart.
C6_LineAtKPlusOneIncrements ==
    pdfSettings.uniformizeLineSpacing =>
        \A n \in DOMAIN pdfPages : \A par \in Pars(SourceOf(pdfPages[n])) :
            LET N == Len(par.children)
                incNum == par.bbox.h
                Drawn(k) == UNION {DrawsOf(pdfPages[n].calls, w.text) :
                                     w \in Range(par.children[k + 1].children)}
            IN /\ \A k \in 0..(N - 1) : \A c \in Drawn(k) :
                    (c.yNum - (par.bbox.y + par.children[1].baseLine) * c.yDen) * N
                        = (k + 1) * incNum * c.yDen
               /\ N > 0 => \A c \in Drawn(0) :
                    (c.yNum - (par.bbox.y + par.children[1].baseLine) * c.yDen) * N
                        = incNum * c.yDen
               /\ \A k \in 0..(N - 2) : \A c \in Drawn(k) : \A d \in Drawn(k + 1) :
                    (d.yNum * c.yDen - c.yNum * d.yDen) * N = incNum * c.yDen * d.yDen

\* C6 witness: the words of line index 0 and of line index 1 were drawn
C6_Witness ==
    /\ pdfSettings.uniformizeLineSpacing
    /\ \E n \in DOMAIN pdfPages : \E par \in Pars(SourceOf(pdfPages[n])) :
          /\ Len(par.children) = 2
          /\ \A k \in 1..2 : \E w \in Range(par.children[k].children) :
                DrawsOf(pdfPages[n].calls, w.text) # {}

\* the x the cursor rule gives each drawn word of a line, with the advance
\* taken as `advance(x, widthNum)`, numerators over WDen
CursorRule(n, par, lineItem, advance(_, _)) ==
    LET page == SourceOf(pdfPages[n])
        s == pdfSettings
        ws == EnabledWords(lineItem)
        Draw(j) == CHOOSE c \in DrawsOf(pdfPages[n].calls, ws[j].text) : TRUE
    IN \A j \in DOMAIN ws :
        LET prevRight == IF j = 1 THEN par.bbox.x ELSE RectRight(ws[j - 1].bbox)
            G == ws[j].bbox.x - prevRight
            A == AverageCharWidth(PainterAt(page, ws[j], s))
            cursor == IF j = 1 THEN par.bbox.x * WDen
                      ELSE advance(Draw(j - 1).x,
                                   TextWidth(PainterAt(page, ws[j - 1], s),
                                             ws[j - 1].text \o " "))
        IN /\ Cardinality(DrawsOf(pdfPages[n].calls, ws[j].text)) = 1
           /\ Draw(j).x * WDen =
                 IF G * WDen > s.preserveSpaceWidth * A
                 THEN ws[j].bbox.x * WDen ELSE cursor

\* C7: in a uniformly spaced paragraph a drawn word with gap G to the
\* previous drawn word's right edge (the paragraph's left edge for the first)
\* is drawn at its own left edge if and only if G > preserveSpaceWidth * A,
\* strictly; otherwise at the cursor: the previous word's draw x plus the
\* width of that word's text plus one space.
C7_GapRuleExactCursor ==
    pdfSettings.uniformizeLineSpacing =>
        \A n \in DOMAIN pdfPages :
            \A par \in Pars(SourceOf(pdfPages[n])) \ DeadItems(SourceOf(pdfPages[n]), FALSE) :
                \A k \in DOMAIN par.children :
                    CursorRule(n, par, par.children[k],
                               LAMBDA x, widthNum : x * WDen + widthNum)

\* what the code does for C7: the same rule with the cursor truncated to a
\* whole pixel after every word
C7_GapRuleTruncatedCursor ==
    pdfSettings.uniformizeLineSpacing =>
        \A n \in DOMAIN pdfPages :
            \A par \in Pars(SourceOf(pdfPages[n])) \ DeadItems(SourceOf(pdfPages[n]), FALSE) :
                \A k \in DOMAIN par.children :
                    CursorRule(n, par, par.children[k],
                               LAMBDA x, widthNum : ((x * WDen + widthNum) \div WDen) * WDen)

\* C8: in a uniformly spaced paragraph a disabled word is skipped with no
\* renderer call and leaves the cursor and the previous-word-right reference
\* as they were: the page's calls are those of the same page without its
\* disabled words, so the gap of the next enabled word is measured from the
\* last drawn word.
C8_SkippedWordLeavesNoTrace ==
    pdfSettings.uniformizeLineSpacing =>
        \A n \in DOMAIN pdfPages :
            LET page == SourceOf(pdfPages[n]) IN
            /\ pdfPages[n].calls = PageCalls(StripWords(page), pdfSettings, ui.dpi)
            /\ \A lineItem \in Lines(page) : \A w \in Range(lineItem.children) :
                  ~w.enabled =>
                      \A c \in Range(pdfPages[n].calls) :
                          c.op \in {"drawText", "getTextWidth"} =>
                              c.text \notin {w.text, w.text \o " "}

\* C8 witness: a disabled word, then an enabled word whose gap to the skipped
\* word is within the threshold and whose gap to the paragraph's left edge is
\* not: it was drawn at its own left edge
C8_Witness ==
    /\ pdfSettings.uniformizeLineSpacing
    /\ \E n \in DOMAIN pdfPages : \E par \in Pars(SourceOf(pdfPages[n])) :
          \E k \in DOMAIN par.children :
              LET ws == par.children[k].children
                  page == SourceOf(pdfPages[n])
              IN /\ Len(ws) >= 2 /\ ~ws[1].enabled /\ ws[2].enabled
                 /\ ~KeepsSpace(ws[2].bbox.x, RectRight(ws[1].bbox), pdfSettings,
                                AverageCharWidth(PainterAt(page, ws[2], pdfSettings)))
                 /\ KeepsSpace(ws[2].bbox.x, par.bbox.x, pdfSettings,
                               AverageCharWidth(PainterAt(page, ws[2], pdfSettings)))
                 /\ \E c \in DrawsOf(pdfPages[n].calls, ws[2].text) :
                       c.x = ws[2].bbox.x

\* C9: without uniform line spacing every drawText call is for a word of a
\* line, at x = the word's own left edge and y = the line's bottom edge plus
\* the line's baseline offset; no width is queried and the calls are the
\* same for every preserveSpaceWidth.
C9_PlainLineLiteral ==
    ~pdfSettings.uniformizeLineSpacing =>
        \A n \in DOMAIN pdfPages :
            LET page == SourceOf(pdfPages[n])
                calls == pdfPages[n].calls
            IN /\ \A c \in Range(DrawTexts(calls)) :
                     \E lineItem \in Lines(page) : \E w \in Range(lineItem.children) :
                         /\ c.text = w.text
                         /\ c.x = w.bbox.x
                         /\ c.yNum = (lineItem.bbox.y + lineItem.bbox.h - 1
                                         + lineItem.baseLine) * c.yDen
               /\ \A c \in Range(calls) :
                     c.op \notin {"getAverageCharWidth", "getTextWidth"}
               /\ \A q \in 0..3 :
                     PageCalls(page, [pdfSettings EXCEPT !.preserveSpaceWidth = q],
                               ui.dpi) = calls

\* C9 witness: two words of one line were drawn
C9_Witness ==
    /\ ~pdfSettings.uniformizeLineSpacing
    /\ \E n \in DOMAIN pdfPages : \E lineItem \in Lines(SourceOf(pdfPages[n])) :
          /\ Len(lineItem.children) = 2
          /\ \A k \in 1..2 :
                DrawsOf(pdfPages[n].calls, lineItem.children[k].text) # {}

\* C10: with overlay off, the drawImage calls of a page are one per enabled
\* graphic the walk reaches, in order, each into the graphic's own bounding
\* box from that box scaled by imgScale, and no full-page image; with overlay
\* on, the only drawImage call is the full page bounding box, and it is the
\* last call of the page.
C10_ImagesByOverlay ==
    \A n \in DOMAIN pdfPages :
        LET page == SourceOf(pdfPages[n])
            calls == pdfPages[n].calls
            gs == ReachedGraphics(page, pdfSettings)
            Image(r) == [op |-> "drawImage", bbox |-> r,
                         selection |-> InImagePixels(r, page)]
        IN IF pdfSettings.overlay
           THEN /\ DrawImages(calls) = <<Image(page.bbox)>>
                /\ calls[Len(calls)] = Image(page.bbox)
           ELSE DrawImages(calls) = [k \in DOMAIN gs |-> Image(gs[k].bbox)]

\* C10 witness: overlay on, a page with an enabled graphic and a drawn word:
\* one drawImage call, after the text
C10_Witness ==
    /\ pdfSettings.overlay
    /\ \E n \in DOMAIN pdfPages :
          /\ ReachedGraphics(SourceOf(pdfPages[n]), pdfSettings) # <<>>
          /\ DrawTexts(pdfPages[n].calls) # <<>>
          /\ Len(DrawImages(pdfPages[n].calls)) = 1
          /\ ui.dpi # SourceOf(pdfPages[n]).resolution

\* C10 second case: overlay off, two graphics drawn into their own boxes
C10_WitnessReplace ==
    /\ ~pdfSettings.overlay
    /\ \E n \in DOMAIN pdfPages : Len(DrawImages(pdfPages[n].calls)) = 2

----------------------------------------------------------------------------
(* Properties of the walk as a whole *)

\* the tree without its paragraphs that have no children
RECURSIVE WithoutEmptyPars(_)
WithoutEmptyPars(item) ==
    LET kids == SelectSeq(item.children,
                          LAMBDA k : ~(k.cls = "ocr_par" /\ Len(k.children) = 0))
    IN [item EXCEPT !.children = [n \in DOMAIN kids |-> WithoutEmptyPars(kids[n])]]

\* the enabled paragraphs without children that the walk reaches
EmptyPars(page) ==
    {par \in Pars(page) \ DeadItems(page, FALSE) : Len(par.children) = 0}

\* the texts of the words of a tree in document order; with `live`, only of
\* the enabled words below enabled items
RECURSIVE WordTexts(_, _)
RECURSIVE WordTextsIn(_, _, _)
WordTexts(item, live) ==
    IF live /\ ~item.enabled THEN <<>>
    ELSE IF item.cls = "ocr_word" THEN <<item.text>>
    ELSE WordTextsIn(item.children, 1, live)
WordTextsIn(kids, n, live) ==
    IF n > Len(kids) THEN <<>>
    ELSE WordTexts(kids[n], live) \o WordTextsIn(kids, n + 1, live)

TextsOf(calls) == [n \in DOMAIN DrawTexts(calls) |-> DrawTexts(calls)[n].text]

\* C13: for an enabled paragraph without children and uniform line spacing
\* on, printChildren reads no child (the baseline is 0), makes no renderer
\* call and returns: the painter is as before, the page is finished and its
\* calls are those of the page without the paragraph.
C13_EmptyParagraphNoOp ==
    pdfSettings.uniformizeLineSpacing =>
        \A n \in DOMAIN pdfPages :
            LET page == SourceOf(pdfPages[n])
                p0 == setFontSize(NewPainter(page.resolution), DefaultFontSize * 100)
                imgScale == [num |-> ui.dpi, den |-> page.resolution]
            IN EmptyPars(page) # {} =>
                /\ pdfPages[n].finished
                /\ \A par \in EmptyPars(page) :
                      /\ ParBaseline(par) = 0
                      /\ printChildren(p0, par, pdfSettings, imgScale) = p0
                /\ pdfPages[n].calls =
                      PageCalls(WithoutEmptyPars(page), pdfSettings, ui.dpi)

\* C13 witness: a page with an enabled paragraph without children was
\* rendered with uniform line spacing and the export returned
C13_Witness ==
    /\ pdfSettings.uniformizeLineSpacing
    /\ pc = "done"
    /\ \E n \in DOMAIN pdfPages : EmptyPars(SourceOf(pdfPages[n])) # {}

\* C14: for page > (containers) > paragraph > line > word and both values of
\* the uniform line spacing setting, every enabled word below enabled items
\* has exactly one drawText call with its text; the drawText calls are in
\* document order and no text is drawn twice. The pages are rendered under
\* either value of the setting, so the live words drawn under one value are
\* those drawn under the other.
C14_EveryLiveWordOnce ==
    \A n \in DOMAIN pdfPages :
        LET page == SourceOf(pdfPages[n])
            live == WordTexts(page, TRUE)
            all == WordTexts(page, FALSE)
            Holds(drawn) ==
                /\ SelectSeq(drawn, LAMBDA t : t \in Range(live)) = live
                /\ \A a, b \in DOMAIN drawn : a # b => drawn[a] # drawn[b]
                /\ SelectSeq(all, LAMBDA t : t \in Range(drawn)) = drawn
        IN Holds(TextsOf(pdfPages[n].calls))

\* C14 witness: two enabled words of an enabled line were drawn with uniform
\* line spacing on
C14_Witness ==
    /\ pdfSettings.uniformizeLineSpacing
    /\ \E n \in DOMAIN pdfPages :
          /\ Len(WordTexts(SourceOf(pdfPages[n]), TRUE)) = 2
          /\ Len(TextsOf(pdfPages[n].calls)) = 2

\* C14 second case: a word below a column area, drawn with the setting off
C14_WitnessContainer ==
    /\ ~pdfSettings.uniformizeLineSpacing
    /\ \E n \in DOMAIN pdfPages :
          /\ \E it \in AllItems(SourceOf(pdfPages[n])) : it.cls = "ocr_carea"
          /\ Len(WordTexts(SourceOf(pdfPages[n]), TRUE)) = 1
          /\ Len(TextsOf(pdfPages[n].calls)) = 1

----------------------------------------------------------------------------
(* Properties of the embedded images and of the two combos *)

\* C11: when the Fax4 encoder returns no data while an image is drawn, the
\* page becomes a failed page: no page of the document holds an image with an
\* empty stream, and no page is finished as if the image had been encoded.
C11_EncoderFailureFailsPage ==
    \A n \in DOMAIN pdfPages :
        \A k \in DOMAIN pdfPages[n].images :
            pdfPages[n].images[k].stream # "empty"

\* C11, the code's behaviour: an image with an empty stream is embedded only
\* for Fax4, and its page is finished and is not among the failed pages
C11_EmptyStreamOnlyForFax4 ==
    \A n \in DOMAIN pdfPages :
        \A k \in DOMAIN pdfPages[n].images :
            pdfPages[n].images[k].stream = "empty" =>
                /\ pdfPages[n].images[k].compression = "CompressFax4"
                /\ pdfPages[n].finished
                /\ pdfPages[n].title \notin Range(failed)

\* the settings are consistent: Fax4 only with Mono, Jpeg never with Mono
Consistent(s) ==
    /\ s.compression = "CompressFax4" => s.colorFormat = "Format_Mono"
    /\ s.compression = "CompressJpeg" => s.colorFormat # "Format_Mono"

C12_ConsistentOnceFormatChosen ==
    combos.format # -1 =>
        /\ Consistent(ReadSettings(ui, combos))
        /\ combos.ccittEnabled = (combos.format = findData(FormatItems, "Format_Mono"))
        /\ combos.jpegEnabled = ~combos.ccittEnabled
        /\ pc \in {"pages", "close", "done"} /\ accepted => Consistent(pdfSettings)

====
